---------------------------- MODULE Spec2Model ----------------------------
(***************************************************************************)
(* Model of monitor.js (SPE Monitor): paginated retrieval of the registry, *)
(* the snapshot store, change detection between the previous snapshot and  *)
(* the fetched records, the per-subscriber scope filter and the            *)
(* notification loop of main.                                              *)
(***************************************************************************)
EXTENDS Integers, Sequences, FiniteSets, TLC

VARIABLES
  pc,              \* control point of main / fetchAllData
  snapshotFile,    \* data/previous-state.json: [state, data]
  reportFiles,     \* data/changes-<date>.json files written, in order
  remotePages,     \* the remote registry, page by page
  reportedTotal,   \* meta.total as the remote reports it
  isDryRun,        \* main: --dry-run given
  previousState,   \* main: loadPreviousData()
  isFirstRun,      \* main
  allData,         \* fetchAllData: records accumulated
  currentPage,     \* fetchAllData
  hasMore,         \* fetchAllData
  total,           \* fetchAllData
  lastPage,        \* history: page number of the last request issued, 0 if none
  requested,       \* history: requests issued so far for page lastPage
  stopReason,      \* history: why the fetch loop ended
  warned,          \* the ceiling warning was logged
  currentData,     \* main: result of fetchAllData / detectChanges argument
  changes,         \* main: detectChanges(previousState, currentData)
  abonnes,         \* main: active subscribers of config/subscribers.json
  allAbonnes,      \* config/subscribers.json as loaded
  subIdx,          \* main: position in the for-of loop over activeSubscribers
  perimetres,      \* scope tokens handed to filterChangesForSubscriber
  filteredChanges, \* result of filterChangesForSubscriber
  emailsSent,      \* main
  html,            \* main: generateEmailHTML(filteredChanges), the ministry banners
  sent,            \* history: calls of sendEmailResend, [to, ok], in order
  effects,         \* history: persistent / observable effects of the run, in order
  exitCode         \* process exit code, -1 while running

vars == << pc, snapshotFile, reportFiles, remotePages, reportedTotal, isDryRun,
           previousState, isFirstRun, allData, currentPage, hasMore, total,
           lastPage, requested, stopReason, warned, currentData, changes,
           abonnes, allAbonnes, subIdx, perimetres, filteredChanges,
           emailsSent, html, sent, effects, exitCode >>

---------------------------------------------------------------------------
(* Bounds of the model *)

\* identifiers of records are 1..MaxId; 0 stands for a missing (falsy) id
MaxId == 2
\* longest current record sequence handed to detectChanges in SpecDiff
MaxLen == 2
\* most subscribers in config/subscribers.json
MaxSubs == 2
\* most non-empty pages the remote registry holds
MaxRemotePages == 2
\* page numbers followed beyond MAX_PAGES
MaxOverrun == 2

---------------------------------------------------------------------------
(* JavaScript values of record fields *)

Val(k, s, n) == [k |-> k, s |-> s, n |-> n]
UNDEF == Val("undefined", "", 0)
NULL == Val("null", "", 0)
Str(s) == Val("string", s, 0)
Num(n) == Val("number", "", n)

\* String(v) for the kinds of value modelled
String(v) ==
  CASE v.k = "string" -> v.s
    [] v.k = "number" -> ToString(v.n)
    [] v.k = "null" -> "null"
    [] OTHER -> "undefined"

\* JavaScript truthiness
Truthy(v) ==
  CASE v.k = "string" -> v.s # ""
    [] v.k = "number" -> v.n # 0
    [] OTHER -> FALSE

\* Array.prototype.includes
Includes(seq, v) == \E i \in 1..Len(seq) : seq[i] = v

MAX_PAGES == 1500

MONITORED_FIELDS ==
  << "name", "siret", "city", "department_lib", "region_lib",
     "line_ministry", "sector_list", "daily_meal_count", "yearly_meal_count",
     "production_type", "management_type", "economic_model",
     "active_on_ma_cantine", "has_active_manager" >>

FieldNames == { MONITORED_FIELDS[i] : i \in 1..Len(MONITORED_FIELDS) }

FIELD_LABELS ==
  [ f \in FieldNames |->
      CASE f = "name" -> "Nom"
        [] f = "siret" -> "SIRET"
        [] f = "city" -> "Ville"
        [] f = "department_lib" -> "Département"
        [] f = "region_lib" -> "Région"
        [] f = "line_ministry" -> "Ministère de tutelle"
        [] f = "sector_list" -> "Secteur"
        [] f = "daily_meal_count" -> "Couverts/jour"
        [] f = "yearly_meal_count" -> "Couverts/an"
        [] f = "production_type" -> "Type de production"
        [] f = "management_type" -> "Type de gestion"
        [] f = "economic_model" -> "Modèle économique"
        [] f = "active_on_ma_cantine" -> "Actif sur ma-cantine"
        [] OTHER -> "Gestionnaire actif" ]

---------------------------------------------------------------------------
(* detectChanges *)

\* Normalize without the null test
NormalizeNullKept(v) == IF v.k = "undefined" THEN "" ELSE String(v)

\* the comparison form of a field value (monitor.js 203-204)
Normalize(v) == IF v.k = "null" \/ v.k = "undefined" THEN "" ELSE String(v)

\* the modifications list of one record against its previous version
RECURSIVE ModificationsFrom(_, _, _)
ModificationsFrom(previous, item, i) ==
  IF i > Len(MONITORED_FIELDS) THEN << >>
  ELSE LET field == MONITORED_FIELDS[i]
           oldValue == previous.f[field]
           newValue == item.f[field]
           rest == ModificationsFrom(previous, item, i + 1)
       IN IF Normalize(oldValue) # Normalize(newValue)
          THEN << [ champ |-> field,
                    label |-> FIELD_LABELS[field],
                    ancienne_valeur |-> oldValue,
                    nouvelle_valeur |-> newValue ] >> \o rest
          ELSE rest

Modifications(previous, item) == ModificationsFrom(previous, item, 1)

\* the forEach over currentData (monitor.js 180-227), after i records
RECURSIVE ScanCurrent(_, _, _)
ScanCurrent(prev, cur, i) ==
  IF i = 0
  THEN [ nouveaux |-> << >>, modifies |-> << >>, currentIndexed |-> {} ]
  ELSE LET acc == ScanCurrent(prev, cur, i - 1)
           item == cur[i]
       IN IF item.id = 0 THEN acc
          ELSE IF item.id \notin DOMAIN prev
          THEN [ acc EXCEPT
                   !.currentIndexed = @ \cup {item.id},
                   !.nouveaux = Append(@,
                      [ id |-> item.id,
                        etablissement |-> item,
                        ministere |-> item.f["line_ministry"],
                        region |-> item.f["region_lib"] ]) ]
          ELSE LET previous == prev[item.id]
                   modifications == Modifications(previous, item)
               IN IF Len(modifications) > 0
                  THEN [ acc EXCEPT
                           !.currentIndexed = @ \cup {item.id},
                           !.modifies = Append(@,
                              [ id |-> item.id,
                                etablissement |-> item,
                                ministere |-> item.f["line_ministry"],
                                region |-> item.f["region_lib"],
                                ancienMinistere |-> previous.f["line_ministry"],
                                modifications |-> modifications ]) ]
                  ELSE [ acc EXCEPT !.currentIndexed = @ \cup {item.id} ]

\* Object.keys of an object with integer keys: ascending
RECURSIVE SortedKeys(_)
SortedKeys(S) ==
  IF S = {} THEN << >>
  ELSE LET m == CHOOSE x \in S : \A y \in S : x <= y
       IN << m >> \o SortedKeys(S \ {m})

\* the forEach over Object.keys(previousState) (monitor.js 230-240)
RECURSIVE ScanPrevious(_, _, _)
ScanPrevious(prev, keys, currentIndexed) ==
  IF keys = << >> THEN << >>
  ELSE LET id == Head(keys)
           item == prev[id]
           rest == ScanPrevious(prev, Tail(keys), currentIndexed)
       IN IF id \notin currentIndexed
          THEN << [ id |-> id,
                    etablissement |-> item,
                    ministere |-> item.f["line_ministry"],
                    region |-> item.f["region_lib"] ] >> \o rest
          ELSE rest

\* detectChanges reporting every previous id as removed
detectChangesAllRemoved(prev, cur) ==
  LET scan == ScanCurrent(prev, cur, Len(cur))
  IN [ nouveaux |-> scan.nouveaux,
       modifies |-> scan.modifies,
       supprimes |-> ScanPrevious(prev, SortedKeys(DOMAIN prev), {}) ]

detectChanges(prev, cur) ==
  LET scan == ScanCurrent(prev, cur, Len(cur))
  IN [ nouveaux |-> scan.nouveaux,
       modifies |-> scan.modifies,
       supprimes |-> ScanPrevious(prev, SortedKeys(DOMAIN prev), scan.currentIndexed) ]

NoChanges == [ nouveaux |-> << >>, modifies |-> << >>, supprimes |-> << >> ]

TotalChanges(c) == Len(c.nouveaux) + Len(c.modifies) + Len(c.supprimes)

---------------------------------------------------------------------------
(* filterChangesForSubscriber *)

\* item.ancienMinistere: undefined on added and removed entries
AncienMinistere(item) ==
  IF "ancienMinistere" \in DOMAIN item THEN item.ancienMinistere ELSE UNDEF

filterItem(item, perims) ==
  \/ Includes(perims, item.ministere)
  \/ Includes(perims, item.region)
  \/ (Truthy(AncienMinistere(item)) /\ Includes(perims, AncienMinistere(item)))

FilterSeq(seq, perims) == SelectSeq(seq, LAMBDA item : filterItem(item, perims))

filterChangesForSubscriber(chg, perims) ==
  IF Includes(perims, Str("ALL")) THEN chg
  ELSE [ nouveaux |-> FilterSeq(chg.nouveaux, perims),
         modifies |-> FilterSeq(chg.modifies, perims),
         supprimes |-> FilterSeq(chg.supprimes, perims) ]

---------------------------------------------------------------------------
(* generateEmailHTML: the ministry banner of each modified entry           *)

\* item.modifications.find(m => m.champ === champ), line 387; the position of
\* the first match, 0 when there is none
FindModification(mods, champ) ==
  IF \E i \in 1..Len(mods) : mods[i].champ = champ
  THEN CHOOSE i \in 1..Len(mods) :
         /\ mods[i].champ = champ
         /\ \A j \in 1..(i - 1) : mods[j].champ # champ
  ELSE 0

\* the banner chosen from the new value alone
MinistryBannerByNewValue(ministryChange) ==
  IF Truthy(ministryChange.nouvelle_valeur) THEN "RATTACHEMENT SPE"
  ELSE "RETRAIT SPE"

\* the banner chosen by lines 399-405
MinistryBanner(ministryChange) ==
  IF ~Truthy(ministryChange.ancienne_valeur) /\ Truthy(ministryChange.nouvelle_valeur)
  THEN "RATTACHEMENT SPE"
  ELSE IF Truthy(ministryChange.ancienne_valeur) /\ ~Truthy(ministryChange.nouvelle_valeur)
  THEN "RETRAIT SPE"
  ELSE "CHANGEMENT MINISTERE"

\* the banners of changes.modifies in order, lines 383-406: "" for an entry
\* without modification of line_ministry
generateEmailHTML(chg) ==
  [ i \in 1..Len(chg.modifies) |->
      LET mods == chg.modifies[i].modifications
          k == FindModification(mods, "line_ministry")
      IN IF k = 0 THEN "" ELSE MinistryBanner(mods[k]) ]

---------------------------------------------------------------------------
(* Input domains *)

\* field contents the drawn records take: name, supervising authority, meal
\* count and region; the first two differ only in the representation of their
\* values ("" / null, 100 / "100")
ProfNone ==
  [ name |-> Str(""), ministry |-> Str(""), meals |-> Num(100),
    region |-> Str("Bretagne") ]
ProfNull ==
  [ name |-> NULL, ministry |-> NULL, meals |-> Str("100"),
    region |-> Str("Bretagne") ]
ProfJustice ==
  [ name |-> UNDEF, ministry |-> Str("Justice"), meals |-> Num(100),
    region |-> Str("Bretagne") ]
ProfCulture ==
  [ name |-> Str(""), ministry |-> Str("Culture"), meals |-> Num(150),
    region |-> Str("Île-de-France") ]

Profiles == { ProfNone, ProfNull, ProfJustice, ProfCulture }

Rec(id, p) ==
  [ id |-> id,
    f |-> [ fld \in FieldNames |->
              CASE fld = "name" -> p.name
                [] fld = "line_ministry" -> p.ministry
                [] fld = "daily_meal_count" -> p.meals
                [] fld = "region_lib" -> p.region
                [] OTHER -> UNDEF ] ]

Ids == 1..MaxId

\* snapshots: id -> record carrying that id
Snapshots ==
  UNION { [ D -> Profiles ] : D \in SUBSET Ids }

SnapshotOf(m) == [ id \in DOMAIN m |-> Rec(id, m[id]) ]

\* fetched records: an id (0: none) and field contents
Records ==
  { Rec(id, p) : id \in Ids, p \in Profiles }
    \cup { Rec(0, ProfJustice) }

SeqsUpTo(S, n) == UNION { [ 1..k -> S ] : k \in 0..n }

\* scope token lists of subscribers
TokenLists ==
  { << Str("ALL") >>,
    << Str("Justice") >>,
    << Str("") >>,
    << Str("Culture"), Str("Bretagne") >> }

---------------------------------------------------------------------------
(* Specification of the pure functions: detectChanges and                  *)
(* filterChangesForSubscriber applied to drawn inputs                      *)

RunIdle ==
  /\ snapshotFile = [ state |-> "missing", data |-> << >> ]
  /\ reportFiles = << >>
  /\ remotePages = << >>
  /\ reportedTotal = 0
  /\ isDryRun = FALSE
  /\ isFirstRun = FALSE
  /\ allData = << >>
  /\ currentPage = 0
  /\ hasMore = FALSE
  /\ total = 0
  /\ lastPage = 0
  /\ requested = 0
  /\ stopReason = "none"
  /\ warned = FALSE
  /\ abonnes = << >>
  /\ allAbonnes = << >>
  /\ subIdx = 0
  /\ emailsSent = 0
  /\ sent = << >>
  /\ effects = << >>
  /\ exitCode = -1

DiffInit ==
  /\ RunIdle
  /\ pc = "diff"
  /\ \E m \in Snapshots : previousState = SnapshotOf(m)
  /\ currentData \in SeqsUpTo(Records, MaxLen)
  /\ changes = NoChanges
  /\ perimetres = << >>
  /\ filteredChanges = NoChanges
  /\ html = << >>

runVars == << snapshotFile, reportFiles, remotePages, reportedTotal, isDryRun,
              isFirstRun, allData, currentPage, hasMore, total, lastPage,
              requested, stopReason, warned, abonnes, allAbonnes, subIdx,
              emailsSent, sent, effects, exitCode >>

DiffDetect ==
  /\ pc = "diff"
  /\ changes' = detectChanges(previousState, currentData)
  /\ pc' = "detected"
  /\ UNCHANGED << previousState, currentData, perimetres, filteredChanges, html >>
  /\ UNCHANGED runVars

DiffFilter ==
  /\ pc = "detected"
  /\ \E toks \in TokenLists :
       /\ perimetres' = toks
       /\ filteredChanges' = filterChangesForSubscriber(changes, toks)
  /\ pc' = "filtered"
  /\ UNCHANGED << previousState, currentData, changes, html >>
  /\ UNCHANGED runVars

DiffNext == DiffDetect

\* detectChanges applied to every drawn snapshot and record sequence
SpecDiff == DiffInit /\ [][DiffNext]_vars

FilterNext == DiffDetect \/ DiffFilter

\* filterChangesForSubscriber applied to the change sets detectChanges gives
SpecFilter == DiffInit /\ [][FilterNext]_vars

\* values the supervising authority of a record takes: absent, null, empty or
\* the name of a ministry
AuthorityValues == { UNDEF, NULL, Str(""), Str("Justice"), Str("Culture") }

RenderProfiles ==
  { [ name |-> Str(""), ministry |-> a, meals |-> m, region |-> Str("Bretagne") ] :
      a \in AuthorityValues, m \in { Num(100), Num(150) } }

\* two records and their previous versions
RenderInit ==
  /\ RunIdle
  /\ pc = "diff"
  /\ \E p1 \in RenderProfiles, p2 \in RenderProfiles :
       previousState = SnapshotOf(1 :> p1 @@ 2 :> p2)
  /\ \E q1 \in RenderProfiles, q2 \in RenderProfiles :
       currentData = << Rec(1, q1), Rec(2, q2) >>
  /\ changes = NoChanges
  /\ perimetres = << >>
  /\ filteredChanges = NoChanges
  /\ html = << >>

\* generateEmailHTML applied to a change set
RenderEmail ==
  /\ pc = "detected"
  /\ html' = generateEmailHTML(changes)
  /\ pc' = "rendered"
  /\ UNCHANGED << previousState, currentData, changes, perimetres,
                  filteredChanges >>
  /\ UNCHANGED runVars

RenderNext == DiffDetect \/ RenderEmail

\* generateEmailHTML applied to the change sets detectChanges gives
SpecRender == RenderInit /\ [][RenderNext]_vars

---------------------------------------------------------------------------
(* Snapshot store *)

\* loadPreviousData: a missing or unreadable file gives the empty snapshot
loadPreviousData(file) == IF file.state = "ok" THEN file.data ELSE << >>

\* the index built by saveCurrentState from the first i records: the last
\* record carrying an id wins, records without id are left out
RECURSIVE IndexById(_, _)
IndexById(data, i) ==
  IF i = 0 THEN << >>
  ELSE LET acc == IndexById(data, i - 1)
           item == data[i]
       IN IF item.id # 0 THEN (item.id :> item) @@ acc ELSE acc

saveCurrentState(data) == IndexById(data, Len(data))

---------------------------------------------------------------------------
(* One run of main against a remote registry and a snapshot file           *)

\* the records the remote holds on page p: nothing beyond its last page
PageOf(p) == IF p <= Len(remotePages) THEN remotePages[p] ELSE << >>

\* the records of pages 1..n, in page order
RECURSIVE RecordsOfPages(_)
RecordsOfPages(n) ==
  IF n = 0 THEN << >>
  ELSE IF n > Len(remotePages) THEN RecordsOfPages(Len(remotePages))
  ELSE RecordsOfPages(n - 1) \o remotePages[n]

RunRecords == { Rec(1, ProfCulture), Rec(2, ProfNone) }

Remotes == SeqsUpTo({ << r >> : r \in RunRecords }, MaxRemotePages)

SnapshotFiles ==
  { [ state |-> "missing", data |-> << >> ],
    [ state |-> "corrupt", data |-> << >> ],
    [ state |-> "ok", data |-> SnapshotOf(1 :> ProfJustice) ],
    [ state |-> "ok", data |-> SnapshotOf(1 :> ProfCulture @@ 2 :> ProfNone) ] }

\* config/subscribers.json: subscribers are told apart by their address
SubscriberLists ==
  UNION { { [ i \in 1..k |-> [ email |-> i, perimetres |-> ps[i], actif |-> ac[i] ] ] :
              ps \in [ 1..k -> TokenLists ], ac \in [ 1..k -> BOOLEAN ] } :
          k \in 0..MaxSubs }

PageCap == MAX_PAGES + MaxOverrun

\* the program before main is started, no report written yet
ProcessStart ==
  /\ pc = "start"
  /\ reportFiles = << >>
  /\ isDryRun = FALSE
  /\ previousState = << >>
  /\ isFirstRun = FALSE
  /\ allData = << >>
  /\ currentPage = 0
  /\ hasMore = FALSE
  /\ total = 0
  /\ lastPage = 0
  /\ requested = 0
  /\ stopReason = "none"
  /\ warned = FALSE
  /\ currentData = << >>
  /\ changes = NoChanges
  /\ abonnes = << >>
  /\ allAbonnes = << >>
  /\ subIdx = 0
  /\ perimetres = << >>
  /\ filteredChanges = NoChanges
  /\ emailsSent = 0
  /\ html = << >>
  /\ sent = << >>
  /\ effects = << >>
  /\ exitCode = -1

Init ==
  /\ ProcessStart
  /\ snapshotFile \in SnapshotFiles
  /\ remotePages \in Remotes
  /\ \E skew \in {0, 1} : reportedTotal = Len(remotePages) + skew

remoteVars == << remotePages, reportedTotal >>
fetchVars == << allData, currentPage, hasMore, total, lastPage, requested,
                stopReason, warned >>
notifyVars == << abonnes, allAbonnes, subIdx, perimetres, filteredChanges,
                 emailsSent, html, sent >>

\* a request for page p goes out
IssueRequest(p) ==
  /\ lastPage' = p
  /\ requested' = IF p = lastPage THEN requested + 1 ELSE 1

\* main, lines 528-542, and the entry of fetchAllData, lines 57-63
MainStart ==
  /\ pc = "start"
  /\ \E dry \in BOOLEAN : isDryRun' = dry
  /\ previousState' = loadPreviousData(snapshotFile)
  /\ isFirstRun' = (DOMAIN loadPreviousData(snapshotFile) = {})
  /\ allData' = << >>
  /\ currentPage' = 1
  /\ hasMore' = TRUE
  /\ total' = 0
  /\ effects' = Append(effects, "load")
  /\ pc' = "fetch"
  /\ UNCHANGED << snapshotFile, reportFiles, lastPage, requested, stopReason,
                  warned, currentData, changes, exitCode >>
  /\ UNCHANGED << remoteVars, notifyVars >>

\* one iteration of the while loop whose request succeeds, lines 65-97
FetchPageOk ==
  /\ pc = "fetch"
  /\ hasMore
  /\ IssueRequest(currentPage)
  /\ LET pageData == PageOf(currentPage)
         newData == allData \o pageData
         more == Len(newData) < reportedTotal /\ Len(pageData) > 0
     IN /\ total' = reportedTotal
        /\ allData' = newData
        /\ hasMore' = more
        /\ currentPage' = currentPage + 1
        /\ IF currentPage + 1 > MAX_PAGES
           THEN /\ warned' = TRUE
                /\ stopReason' = IF more THEN "ceiling_cut" ELSE "ceiling"
                /\ pc' = "fetched"
           ELSE /\ warned' = warned
                /\ stopReason' = IF more THEN stopReason ELSE "exhausted"
                /\ pc' = IF more THEN "fetch" ELSE "fetched"
  /\ UNCHANGED << snapshotFile, reportFiles, isDryRun, previousState, isFirstRun,
                  currentData, changes, effects, exitCode >>
  /\ UNCHANGED << remoteVars, notifyVars >>

\* the request of an iteration fails: lines 68-72 and 98-101
FetchPageFail ==
  /\ pc = "fetch"
  /\ hasMore
  /\ IssueRequest(currentPage)
  /\ pc' = "retry"
  /\ UNCHANGED << allData, currentPage, hasMore, total, stopReason, warned >>
  /\ UNCHANGED << snapshotFile, reportFiles, isDryRun, previousState, isFirstRun,
                  currentData, changes, effects, exitCode >>
  /\ UNCHANGED << remoteVars, notifyVars >>

\* RetryOk leaving the page's records out
RetryOkDropsPage ==
  /\ pc = "retry"
  /\ currentPage < PageCap
  /\ IssueRequest(currentPage)
  /\ currentPage' = currentPage + 1
  /\ pc' = "fetch"
  /\ UNCHANGED << allData, hasMore, total, stopReason, warned >>
  /\ UNCHANGED << snapshotFile, reportFiles, isDryRun, previousState, isFirstRun,
                  currentData, changes, effects, exitCode >>
  /\ UNCHANGED << remoteVars, notifyVars >>

\* the retry succeeds: lines 102-109
RetryOk ==
  /\ pc = "retry"
  /\ currentPage < PageCap
  /\ IssueRequest(currentPage)
  /\ allData' = allData \o PageOf(currentPage)
  /\ currentPage' = currentPage + 1
  /\ pc' = "fetch"
  /\ UNCHANGED << hasMore, total, stopReason, warned >>
  /\ UNCHANGED << snapshotFile, reportFiles, isDryRun, previousState, isFirstRun,
                  currentData, changes, effects, exitCode >>
  /\ UNCHANGED << remoteVars, notifyVars >>

\* the retry fails too: lines 102-104 and 110-114
RetryFail ==
  /\ pc = "retry"
  /\ IssueRequest(currentPage)
  /\ stopReason' = "aborted"
  /\ pc' = "fetched"
  /\ UNCHANGED << allData, currentPage, hasMore, total, warned >>
  /\ UNCHANGED << snapshotFile, reportFiles, isDryRun, previousState, isFirstRun,
                  currentData, changes, effects, exitCode >>
  /\ UNCHANGED << remoteVars, notifyVars >>

\* MainCheckEmpty without the test for an empty result
MainCheckEmptyGoesOn ==
  /\ pc = "fetched"
  /\ currentData' = allData
  /\ allData' = << >>
  /\ currentPage' = 0
  /\ hasMore' = FALSE
  /\ total' = 0
  /\ lastPage' = 0
  /\ requested' = 0
  /\ pc' = "save"
  /\ UNCHANGED << snapshotFile, reportFiles, isDryRun, previousState, isFirstRun,
                  stopReason, warned, changes, effects, exitCode >>
  /\ UNCHANGED << remoteVars, notifyVars >>

\* fetchAllData returns, lines 118-119; main, lines 542-547
MainCheckEmpty ==
  /\ pc = "fetched"
  /\ currentData' = allData
  /\ allData' = << >>
  /\ currentPage' = 0
  /\ hasMore' = FALSE
  /\ total' = 0
  /\ lastPage' = 0
  /\ requested' = 0
  /\ IF Len(allData) = 0
     THEN pc' = "exited" /\ exitCode' = 1
     ELSE pc' = "save" /\ exitCode' = exitCode
  /\ UNCHANGED << snapshotFile, reportFiles, isDryRun, previousState, isFirstRun,
                  stopReason, warned, changes, effects >>
  /\ UNCHANGED << remoteVars, notifyVars >>

\* main, lines 549-561, without the first-run exit of lines 553-557
MainSaveAlwaysDetects ==
  /\ pc = "save"
  /\ snapshotFile' = [ state |-> "ok", data |-> saveCurrentState(currentData) ]
  /\ effects' = Append(effects, "save")
  /\ pc' = "detect"
  /\ UNCHANGED << reportFiles, isDryRun, previousState, isFirstRun, currentData,
                  changes, exitCode >>
  /\ UNCHANGED << remoteVars, fetchVars, notifyVars >>

\* main, lines 549-557, with saveCurrentState, lines 146-164
MainSave ==
  /\ pc = "save"
  /\ snapshotFile' = [ state |-> "ok", data |-> saveCurrentState(currentData) ]
  /\ effects' = Append(effects, "save")
  /\ IF isFirstRun
     THEN pc' = "exited" /\ exitCode' = 0
     ELSE pc' = "detect" /\ exitCode' = exitCode
  /\ UNCHANGED << reportFiles, isDryRun, previousState, isFirstRun, currentData,
                  changes >>
  /\ UNCHANGED << remoteVars, fetchVars, notifyVars >>

\* main, lines 559-574
MainDetect ==
  /\ pc = "detect"
  /\ changes' = detectChanges(previousState, currentData)
  /\ effects' = Append(effects, "detect")
  /\ IF TotalChanges(detectChanges(previousState, currentData)) = 0
     THEN pc' = "exited" /\ exitCode' = 0
     ELSE pc' = "report" /\ exitCode' = exitCode
  /\ UNCHANGED << snapshotFile, reportFiles, isDryRun, previousState, isFirstRun,
                  currentData >>
  /\ UNCHANGED << remoteVars, fetchVars, notifyVars >>

\* main, lines 576-577, with saveChangesReport, lines 513-523
MainReport ==
  /\ pc = "report"
  /\ reportFiles' = Append(reportFiles, changes)
  /\ effects' = Append(effects, "report")
  /\ pc' = "subscribers"
  /\ UNCHANGED << snapshotFile, isDryRun, previousState, isFirstRun, currentData,
                  changes, exitCode >>
  /\ UNCHANGED << remoteVars, fetchVars, notifyVars >>

\* main, lines 579-596, with loadSubscribers, lines 248-257
MainLoadSubscribers ==
  /\ pc = "subscribers"
  /\ \E config \in SubscriberLists :
       /\ allAbonnes' = config
       /\ abonnes' = SelectSeq(config, LAMBDA a : a.actif)
  /\ IF isDryRun
     THEN pc' = "exited" /\ exitCode' = 0 /\ subIdx' = subIdx
     ELSE pc' = "notify" /\ exitCode' = exitCode /\ subIdx' = 1
  /\ emailsSent' = 0
  /\ UNCHANGED << snapshotFile, reportFiles, isDryRun, previousState, isFirstRun,
                  currentData, changes, perimetres, filteredChanges, html, sent,
                  effects >>
  /\ UNCHANGED << remoteVars, fetchVars >>

\* an iteration of the for-of loop for a subscriber without change in scope,
\* lines 598-605
NotifySkip ==
  /\ pc = "notify"
  /\ subIdx <= Len(abonnes)
  /\ LET filtered == filterChangesForSubscriber(changes, abonnes[subIdx].perimetres)
     IN /\ TotalChanges(filtered) = 0
        /\ perimetres' = abonnes[subIdx].perimetres
        /\ filteredChanges' = filtered
  /\ subIdx' = subIdx + 1
  /\ UNCHANGED << snapshotFile, reportFiles, isDryRun, previousState, isFirstRun,
                  currentData, changes, abonnes, allAbonnes, emailsSent, html,
                  sent, effects, exitCode, pc >>
  /\ UNCHANGED << remoteVars, fetchVars >>

\* what a call of sendEmailResend comes to, lines 470-508: delivered, no API
\* key, refused by the provider, or the request throws
SendOutcomes == { "sent", "no_key", "refused", "error" }

\* NotifySend leaving the loop when the call fails
NotifySendStopsOnFailure ==
  /\ pc = "notify"
  /\ subIdx <= Len(abonnes)
  /\ LET filtered == filterChangesForSubscriber(changes, abonnes[subIdx].perimetres)
     IN /\ TotalChanges(filtered) # 0
        /\ perimetres' = abonnes[subIdx].perimetres
        /\ filteredChanges' = filtered
        /\ html' = generateEmailHTML(filtered)
  /\ \E outcome \in SendOutcomes :
       /\ sent' = Append(sent, [ to |-> abonnes[subIdx].email, ok |-> outcome = "sent" ])
       /\ emailsSent' = IF outcome = "sent" THEN emailsSent + 1 ELSE emailsSent
       /\ subIdx' = IF outcome = "sent" THEN subIdx + 1 ELSE Len(abonnes) + 1
  /\ effects' = Append(effects, "send")
  /\ UNCHANGED << snapshotFile, reportFiles, isDryRun, previousState, isFirstRun,
                  currentData, changes, abonnes, allAbonnes, exitCode, pc >>
  /\ UNCHANGED << remoteVars, fetchVars >>

\* an iteration of the for-of loop that calls sendEmailResend, lines 598-622
NotifySend ==
  /\ pc = "notify"
  /\ subIdx <= Len(abonnes)
  /\ LET filtered == filterChangesForSubscriber(changes, abonnes[subIdx].perimetres)
     IN /\ TotalChanges(filtered) # 0
        /\ perimetres' = abonnes[subIdx].perimetres
        /\ filteredChanges' = filtered
        /\ html' = generateEmailHTML(filtered)
  /\ \E outcome \in SendOutcomes :
       /\ sent' = Append(sent, [ to |-> abonnes[subIdx].email, ok |-> outcome = "sent" ])
       /\ emailsSent' = IF outcome = "sent" THEN emailsSent + 1 ELSE emailsSent
  /\ effects' = Append(effects, "send")
  /\ subIdx' = subIdx + 1
  /\ UNCHANGED << snapshotFile, reportFiles, isDryRun, previousState, isFirstRun,
                  currentData, changes, abonnes, allAbonnes, exitCode, pc >>
  /\ UNCHANGED << remoteVars, fetchVars >>

\* the loop is over and main returns, lines 624-625
MainFinish ==
  /\ pc = "notify"
  /\ subIdx > Len(abonnes)
  /\ pc' = "done"
  /\ exitCode' = 0
  /\ UNCHANGED << snapshotFile, reportFiles, isDryRun, previousState, isFirstRun,
                  currentData, changes, effects >>
  /\ UNCHANGED << remoteVars, fetchVars, notifyVars >>

Next ==
  \/ MainStart
  \/ FetchPageOk
  \/ FetchPageFail
  \/ RetryOk
  \/ RetryFail
  \/ MainCheckEmpty
  \/ MainSave
  \/ MainDetect
  \/ MainReport
  \/ MainLoadSubscribers
  \/ NotifySkip
  \/ NotifySend
  \/ MainFinish

Spec == Init /\ [][Next]_vars

---------------------------------------------------------------------------
(* Two runs of main, one after the other, against a remote that holds the  *)
(* same records for both                                                   *)

\* no snapshot file before the first run; the remote holds one page
StableInit ==
  /\ ProcessStart
  /\ snapshotFile = [ state |-> "missing", data |-> << >> ]
  /\ \E C \in SeqsUpTo(Records, MaxLen) :
       /\ remotePages = << C >>
       /\ reportedTotal = Len(C)

\* the runs of main started so far
RunsStarted == Cardinality({ i \in 1..Len(effects) : effects[i] = "load" })

\* the process has ended and main is started again, lines 627-631: the files
\* stay, the variables of the program start afresh
NextRun ==
  /\ pc \in {"exited", "done"}
  /\ RunsStarted = 1
  /\ pc' = "start"
  /\ exitCode' = -1
  /\ isDryRun' = FALSE
  /\ previousState' = << >>
  /\ isFirstRun' = FALSE
  /\ allData' = << >>
  /\ currentPage' = 0
  /\ hasMore' = FALSE
  /\ total' = 0
  /\ lastPage' = 0
  /\ requested' = 0
  /\ stopReason' = "none"
  /\ warned' = FALSE
  /\ currentData' = << >>
  /\ changes' = NoChanges
  /\ abonnes' = << >>
  /\ allAbonnes' = << >>
  /\ subIdx' = 0
  /\ perimetres' = << >>
  /\ filteredChanges' = NoChanges
  /\ emailsSent' = 0
  /\ html' = << >>
  /\ UNCHANGED << snapshotFile, reportFiles, sent, effects >>
  /\ UNCHANGED remoteVars

StableNext == Next \/ NextRun

SpecStable == StableInit /\ [][StableNext]_vars

---------------------------------------------------------------------------
(* Properties of detectChanges (SpecDiff) and of                           *)
(* filterChangesForSubscriber (SpecFilter)                                 *)

EntryIds(seq) == { seq[i].id : i \in 1..Len(seq) }

CurIds == { currentData[i].id : i \in 1..Len(currentData) } \ {0}

Detected == pc = "detected"

\* C1: detectChanges reports every id of the current records that the previous
\* snapshot lacks in nouveaux only, every id of the previous snapshot that the
\* current records lack in supprimes only, no id whose current records all carry
\* the previous field values, and never a record without an identifier.
C1_DetectClassifies ==
  Detected =>
    LET P == DOMAIN previousState
        N == EntryIds(changes.nouveaux)
        M == EntryIds(changes.modifies)
        S == EntryIds(changes.supprimes)
        all == changes.nouveaux \o changes.modifies \o changes.supprimes
    IN /\ \A id \in CurIds \ P : id \in N /\ id \notin M /\ id \notin S
       /\ \A id \in P \ CurIds : id \in S /\ id \notin N /\ id \notin M
       /\ \A id \in P \cap CurIds :
            (\A i \in 1..Len(currentData) :
               currentData[i].id = id => currentData[i].f = previousState[id].f)
            => id \notin N \cup M \cup S
       /\ \A k \in 1..Len(all) : all[k].id # 0 /\ all[k].etablissement.id # 0

\* a record without identifier, an added id and a removed id in one diff
C1_Witness ==
  /\ pc = "detected"
  /\ \E i \in 1..Len(currentData) : currentData[i].id = 0
  /\ changes.nouveaux # << >>
  /\ changes.supprimes # << >>

IsEmptyValue(v) == v \in { NULL, UNDEF, Str("") }

SameForDiff(a, b) ==
  IF IsEmptyValue(a) \/ IsEmptyValue(b)
  THEN IsEmptyValue(a) /\ IsEmptyValue(b)
  ELSE (IF a.k = "number" THEN ToString(a.n) ELSE a.s)
         = (IF b.k = "number" THEN ToString(b.n) ELSE b.s)

\* positions in MONITORED_FIELDS of the fields that differ
DifferingFields(prev, item) ==
  { i \in 1..Len(MONITORED_FIELDS) :
      ~SameForDiff(prev.f[MONITORED_FIELDS[i]], item.f[MONITORED_FIELDS[i]]) }

KthOf(S, k) == CHOOSE x \in S : Cardinality({ y \in S : y < x }) = k - 1

\* positions of the current records that have a previous version and differ
ModifiedPositions ==
  { i \in 1..Len(currentData) :
      /\ currentData[i].id \in DOMAIN previousState
      /\ DifferingFields(previousState[currentData[i].id], currentData[i]) # {} }

\* C2: modifies holds, in input order, exactly the current records that have a
\* previous version and differ from it in a monitored field once null, absent
\* and "" are taken as equal and other values compared by their string form;
\* each entry lists exactly the differing fields, in monitored-field order,
\* with the raw old and new values, and carries the previous authority.
C2_ModifiedIffFieldDiffers ==
  Detected =>
    /\ Len(changes.modifies) = Cardinality(ModifiedPositions)
    /\ \A k \in 1..Len(changes.modifies) :
         LET e == changes.modifies[k]
             item == currentData[KthOf(ModifiedPositions, k)]
             prev == previousState[item.id]
             D == DifferingFields(prev, item)
         IN /\ e.id = item.id
            /\ e.etablissement = item
            /\ e.ancienMinistere = prev.f["line_ministry"]
            /\ Len(e.modifications) = Cardinality(D)
            /\ Len(e.modifications) > 0
            /\ \A j \in 1..Len(e.modifications) :
                 LET fld == MONITORED_FIELDS[KthOf(D, j)]
                 IN /\ e.modifications[j].champ = fld
                    /\ e.modifications[j].ancienne_valeur = prev.f[fld]
                    /\ e.modifications[j].nouvelle_valeur = item.f[fld]

\* one record differs from its previous version only in how empty values and
\* numbers are written and is not reported; another is reported with several
\* modifications
C2_Witness ==
  /\ pc = "detected"
  /\ \E i \in 1..Len(currentData) :
       /\ currentData[i].id \in DOMAIN previousState
       /\ currentData[i].f # previousState[currentData[i].id].f
       /\ currentData[i].id \notin EntryIds(changes.modifies)
  /\ \E k \in 1..Len(changes.modifies) : Len(changes.modifies[k].modifications) >= 2

\* the retention rule of the scope filter as the specification states it
InScope(item, isModified, toks) ==
  \/ Includes(toks, item.ministere)
  \/ Includes(toks, item.region)
  \/ (isModified /\ Includes(toks, item.ancienMinistere))

\* C3: with "ALL" among the tokens the filter returns its input; otherwise each
\* output sequence is the subsequence of the input entries whose current
\* authority or region is a token or, for modified entries, whose previous
\* authority is a token.
C3_FilterFollowsRule ==
  pc = "filtered" =>
    IF Includes(perimetres, Str("ALL"))
    THEN filteredChanges = changes
    ELSE /\ filteredChanges.nouveaux =
              SelectSeq(changes.nouveaux, LAMBDA e : InScope(e, FALSE, perimetres))
         /\ filteredChanges.modifies =
              SelectSeq(changes.modifies, LAMBDA e : InScope(e, TRUE, perimetres))
         /\ filteredChanges.supprimes =
              SelectSeq(changes.supprimes, LAMBDA e : InScope(e, FALSE, perimetres))

---------------------------------------------------------------------------
(* Properties of a run (Spec)                                              *)

InFetch == pc \in {"start", "fetch", "retry"}

\* C4: a page whose request fails is requested once more and no page is
\* requested more than twice; when the retry fails too the loop is left, no
\* further request goes out, and fetchAllData returns the records of the pages
\* before the failing one, in page order.
C4_RetryOnceThenAbort ==
  /\ [](requested <= 2)
  /\ [](pc = "retry" => requested = 1 /\ lastPage = currentPage)
  /\ [][pc = "retry" => lastPage' = currentPage /\ requested' = 2 /\ pc' # "retry"]_vars
  /\ [][pc' \in {"fetch", "retry", "fetched"} => lastPage' >= lastPage]_vars
  /\ [](stopReason = "aborted" => ~InFetch)
  /\ [](pc = "fetched" /\ stopReason = "aborted" =>
          /\ lastPage = currentPage
          /\ requested = 2
          /\ allData = RecordsOfPages(currentPage - 1))
  /\ [][pc = "fetched" => currentData' = allData]_vars

\* the retry of the second page fails after the first page was fetched
C4_Witness ==
  /\ pc = "fetched"
  /\ stopReason = "aborted"
  /\ currentPage = 2
  /\ Len(allData) = 1

\* C5: the snapshot file is written only in runs whose fetch was neither
\* aborted by a failed retry nor cut by the page ceiling.
C5_OnlyCompleteFetchPersisted ==
  (\E i \in 1..Len(effects) : effects[i] = "save")
    => stopReason \notin {"aborted", "ceiling_cut"}

\* C6: the fetch loop ends whatever the remote does. The page ceiling is what
\* bounds the loop when first requests fail and retries succeed: no iteration
\* of the loop begins with a page number above MAX_PAGES.
C6_FetchTerminates == InFetch => currentPage <= MAX_PAGES

\* C7: no request goes out for a page number above MAX_PAGES, and the loop
\* left at the ceiling has logged the warning and returns.
C7_NeverBeyondCeiling ==
  /\ lastPage <= MAX_PAGES
  /\ (stopReason \in {"ceiling", "ceiling_cut"} => warned /\ ~InFetch)

FetchedNothing == pc \notin {"start", "fetch", "retry", "fetched"} /\ currentData = << >>

\* C8: a run whose fetch returns no record exits with code 1 having done
\* nothing but load the snapshot: the file is as loaded, no report is
\* written, nothing is detected and nothing is sent.
C8_EmptyFetchAborts ==
  FetchedNothing =>
    /\ pc = "exited"
    /\ exitCode = 1
    /\ effects = << "load" >>
    /\ loadPreviousData(snapshotFile) = previousState
    /\ reportFiles = << >>
    /\ changes = NoChanges
    /\ sent = << >>

\* a snapshot exists and the fetch returned nothing
C8_Witness ==
  /\ FetchedNothing
  /\ snapshotFile.state = "ok"
  /\ exitCode = 1

\* the subscribers main has to call sendEmailResend for, in order
DueSubscribers ==
  SelectSeq(allAbonnes,
            LAMBDA a : /\ a.actif
                       /\ TotalChanges(filterChangesForSubscriber(changes, a.perimetres)) > 0)

\* C9: in a run that notifies, sendEmailResend is called once for each active
\* subscriber with a change in scope, in the order of the list and whatever
\* the earlier calls came to, and for no one else; the run ends with code 0.
C9_NotificationIsolated ==
  /\ pc \in {"notify", "done"} =>
       /\ Len(sent) <= Len(DueSubscribers)
       /\ \A i \in 1..Len(sent) : sent[i].to = DueSubscribers[i].email
  /\ pc = "done" => Len(sent) = Len(DueSubscribers) /\ exitCode = 0

\* a call that failed is followed by a call for the next subscriber
C9_Witness ==
  /\ pc = "done"
  /\ Len(sent) = 2
  /\ ~sent[1].ok
  /\ sent[2].ok

\* C10: the snapshot is loaded once, first, and written at most once, last:
\* no detection, report or delivery follows the write.
C10_SnapshotWriteIsLast ==
  /\ effects # << >> => effects[1] = "load"
  /\ \A i \in 1..Len(effects) :
       /\ effects[i] = "load" => i = 1
       /\ effects[i] = "save" => i = Len(effects)

\* the position of the last record of seq carrying identifier id
LastWithId(seq, id) ==
  CHOOSE i \in 1..Len(seq) :
    /\ seq[i].id = id
    /\ \A j \in (i + 1)..Len(seq) : seq[j].id # id

\* C11: a missing or unreadable snapshot file loads as the empty snapshot and
\* makes the run a first run; a first run whose fetch returned at least one
\* record never detects, reports or notifies, and ends with exit code 0 after
\* writing the fetched records, indexed by id, as the new snapshot.
C11_FirstRunSavesOnly ==
  /\ (pc # "start" /\ pc # "exited" /\ snapshotFile.state # "ok")
       => (isFirstRun /\ previousState = << >>)
  /\ (pc # "start" /\ isFirstRun)
       => /\ pc \in {"fetch", "retry", "fetched", "save", "exited"}
          /\ changes = NoChanges
          /\ reportFiles = << >>
          /\ sent = << >>
          /\ \A i \in 1..Len(effects) : effects[i] \in {"load", "save"}
  /\ (pc = "exited" /\ isFirstRun /\ currentData # << >>)
       => /\ exitCode = 0
          /\ effects = << "load", "save" >>
          /\ snapshotFile.state = "ok"
          /\ DOMAIN snapshotFile.data = CurIds
          /\ \A id \in CurIds :
               snapshotFile.data[id] = currentData[LastWithId(currentData, id)]

\* a first run over two fetched records has ended
C11_Witness ==
  /\ pc = "exited"
  /\ isFirstRun
  /\ Len(currentData) = 2
  /\ DOMAIN snapshotFile.data = {1, 2}
  /\ exitCode = 0

\* the transition kind the old and new authority of a record call for
TransitionKind(old, new) ==
  IF IsEmptyValue(old) /\ ~IsEmptyValue(new) THEN "RATTACHEMENT SPE"
  ELSE IF ~IsEmptyValue(old) /\ IsEmptyValue(new) THEN "RETRAIT SPE"
  ELSE IF ~IsEmptyValue(old) /\ ~IsEmptyValue(new) /\ ~SameForDiff(old, new)
  THEN "CHANGEMENT MINISTERE"
  ELSE ""

\* C12: the rendering gives each modified entry whose supervising authority
\* changed exactly one banner: attachment when the previous authority is empty
\* or absent and the current one is set, detachment when the previous one is
\* set and the current one is empty or absent, transfer when both are set and
\* differ; an entry whose authority did not change gets none, and the change
\* set stores no kind.
C12_TransitionKindDerived ==
  pc = "rendered" =>
    /\ Len(html) = Len(changes.modifies)
    /\ \A i \in 1..Len(changes.modifies) :
         LET entry == changes.modifies[i]
             old == previousState[entry.id].f["line_ministry"]
             new == entry.etablissement.f["line_ministry"]
         IN /\ html[i] = TransitionKind(old, new)
            /\ html[i] = "CHANGEMENT MINISTERE"
                 => (~IsEmptyValue(old) /\ ~IsEmptyValue(new) /\ old # new)
            /\ html[i] # ""
                 <=> \E k \in 1..Len(entry.modifications) :
                       entry.modifications[k].champ = "line_ministry"
            /\ DOMAIN entry = { "id", "etablissement", "ministere", "region",
                                "ancienMinistere", "modifications" }
            /\ \A k \in 1..Len(entry.modifications) :
                 DOMAIN entry.modifications[k]
                   = { "champ", "label", "ancienne_valeur", "nouvelle_valeur" }

\* an attachment and a transfer rendered in one message
C12_Witness ==
  /\ pc = "rendered"
  /\ html = << "RATTACHEMENT SPE", "CHANGEMENT MINISTERE" >>

\* C13: a run that fetches the records the run before it fetched and saved
\* detects no change, whatever the sequence of records, ids repeated with
\* different field contents included.
C13_SameFetchNoChange ==
  ( /\ RunsStarted = 2
    /\ \E i \in 1..Len(effects) : effects[i] = "detect"
    /\ snapshotFile = [ state |-> "ok", data |-> previousState ]
    /\ previousState = saveCurrentState(currentData) )
    => /\ changes.nouveaux = << >>
       /\ changes.modifies = << >>
       /\ changes.supprimes = << >>

=============================================================================
